---------------------------- MODULE Spec2Model ----------------------------
(***************************************************************************)
(* A model of rutils.base.fileio and rutils.base.mplhelper.                *)
(*                                                                         *)
(* The file system is a tree of nodes below one root directory, which is   *)
(* also the working directory, so that a relative and an absolute path can *)
(* name the same node.  A path is the list of its components with a flag   *)
(* for the leading slash; "." and ".." are components like any other, and  *)
(* os.path.normpath, os.path.dirname, os.makedirs, mkdir and open are      *)
(* modelled by what they do with them.                                     *)
(***************************************************************************)
EXTENDS Integers, Sequences, FiniteSets, TLC

VARIABLES
    fs,       \* node -> "none" | "dir" | "file"
    data,     \* node -> the content of the file at that node
    last,     \* the record of the last call: operation, arguments, outcome
    nops,     \* number of calls made so far
    figs,     \* pyplot's open figures, the current figure last
    ylims,    \* axes -> <<bottom, top>>, the y-range of each axes
    drawn,    \* the record of the last plotting helper call
    md5st     \* the state of a running md5(filename) call

vars == <<fs, data, last, nops, figs, ylims, drawn, md5st>>

----------------------------------------------------------------------------
(* Bounds *)

MaxLen == 3      \* components in a path, and depth of the tree
MaxOps == 2      \* calls in one behaviour

Names == {"a", "b"}
Comps == Names \cup {".", ".."}

SeqsUpTo(S, n) == UNION {[1..k -> S] : k \in 0..n}

Nodes == SeqsUpTo(Names, MaxLen)
Root == <<>>

\* A path string: abs is the leading slash, parts the components between
\* slashes.  [abs |-> FALSE, parts |-> <<>>] is the empty string.
Paths == [abs : BOOLEAN, parts : SeqsUpTo(Comps, MaxLen)]
EmptyPath == [abs |-> FALSE, parts |-> <<>>]

Front(s) == SubSeq(s, 1, Len(s) - 1)
Last(s) == s[Len(s)]

----------------------------------------------------------------------------
(* posixpath *)

\* posixpath.normpath: drops "." components, folds "x/.." lexically, keeps a
\* relative path's leading "..", drops ".." at the root, and returns "." for
\* an empty result.
RECURSIVE normcomps(_, _, _)
normcomps(abs, comps, new) ==
    IF comps = <<>> THEN new
    ELSE LET c == Head(comps) IN
         IF c = "." THEN normcomps(abs, Tail(comps), new)
         ELSE IF c # ".." \/ (~abs /\ new = <<>>) \/ (new # <<>> /\ Last(new) = "..")
              THEN normcomps(abs, Tail(comps), Append(new, c))
         ELSE IF new # <<>> THEN normcomps(abs, Tail(comps), Front(new))
         ELSE normcomps(abs, Tail(comps), new)

normpath(p) ==
    LET new == normcomps(p.abs, p.parts, <<>>) IN
    IF ~p.abs /\ new = <<>> THEN [abs |-> FALSE, parts |-> <<".">>]
    ELSE [abs |-> p.abs, parts |-> new]

\* posixpath.split: (head, tail) around the last slash.
split(p) ==
    IF p.parts = <<>> THEN [head |-> p, tail |-> ""]
    ELSE [head |-> [abs |-> p.abs, parts |-> Front(p.parts)], tail |-> Last(p.parts)]

\* posixpath.dirname
dirname(p) == split(p).head

\* bool(path): a non-empty string
nonempty(p) == p.abs \/ p.parts # <<>>

----------------------------------------------------------------------------
(* The operating system *)

Parent(n) == IF n = <<>> THEN n ELSE Front(n)

\* Path resolution: every component but the last must be looked up in an
\* existing directory; the node resolved to may itself be absent.
RECURSIVE walk(_, _, _)
walk(f, cur, parts) ==
    IF parts = <<>> THEN [err |-> "ok", node |-> cur]
    ELSE IF f[cur] = "none" THEN [err |-> "FileNotFoundError", node |-> cur]
    ELSE IF f[cur] = "file" THEN [err |-> "NotADirectoryError", node |-> cur]
    ELSE LET c == Head(parts) IN
         walk(f, IF c = "." THEN cur ELSE IF c = ".." THEN Parent(cur) ELSE Append(cur, c),
              Tail(parts))

lookup(f, p) ==
    IF ~nonempty(p) THEN [err |-> "FileNotFoundError", node |-> Root]
    ELSE walk(f, Root, p.parts)

exists(f, p) == LET w == lookup(f, p) IN w.err = "ok" /\ f[w.node] # "none"
isdir(f, p) == LET w == lookup(f, p) IN w.err = "ok" /\ f[w.node] = "dir"

\* os.mkdir
mkdir(f, p) ==
    LET w == lookup(f, p) IN
    IF w.err # "ok" THEN [fs |-> f, err |-> w.err]
    ELSE IF f[w.node] # "none" THEN [fs |-> f, err |-> "FileExistsError"]
    ELSE [fs |-> [f EXCEPT ![w.node] = "dir"], err |-> "ok"]

\* os.makedirs(name, exist_ok=True)
RECURSIVE makedirs(_, _)
makedirs(f, name) ==
    LET sp   == split(name)
        rec  == nonempty(sp.head) /\ sp.tail # "" /\ ~exists(f, sp.head)
        r1   == IF rec THEN makedirs(f, sp.head) ELSE [fs |-> f, err |-> "ok"]
    IN  IF r1.err \notin {"ok", "FileExistsError"} THEN r1
        ELSE IF rec /\ sp.tail = "." THEN [fs |-> r1.fs, err |-> "ok"]
        ELSE LET m == mkdir(r1.fs, name) IN
             IF m.err = "ok" THEN m
             ELSE IF isdir(r1.fs, name) THEN [fs |-> r1.fs, err |-> "ok"]
             ELSE m

\* open(filename, 'w') / open(filename, 'wb'): creates or truncates the file
open_w(f, p) ==
    LET w == lookup(f, p) IN
    IF w.err # "ok" THEN [fs |-> f, err |-> w.err, node |-> w.node]
    ELSE IF f[w.node] = "dir" THEN [fs |-> f, err |-> "IsADirectoryError", node |-> w.node]
    ELSE [fs |-> [f EXCEPT ![w.node] = "file"], err |-> "ok", node |-> w.node]

\* open(filename) / open(filename, 'rb')
open_r(f, p) ==
    LET w == lookup(f, p) IN
    IF w.err # "ok" THEN [err |-> w.err, node |-> w.node]
    ELSE IF f[w.node] = "none" THEN [err |-> "FileNotFoundError", node |-> w.node]
    ELSE IF f[w.node] = "dir" THEN [err |-> "IsADirectoryError", node |-> w.node]
    ELSE [err |-> "ok", node |-> w.node]

----------------------------------------------------------------------------
(* fileio.make_parent_dir *)

make_parent_dir(f, path) == makedirs(f, dirname(normpath(path)))


----------------------------------------------------------------------------
(* Python values *)

\* One record shape for every value: t is the type, n an int's number, s a
\* str's characters, items the members of a list or tuple, the <<key, value>>
\* pairs of a dict, or the parts of a DataFrame.
PyInt(k)     == [t |-> "int",   n |-> k, s |-> "", items |-> <<>>]
PyStr(x)     == [t |-> "str",   n |-> 0, s |-> x,  items |-> <<>>]
PyList(xs)   == [t |-> "list",  n |-> 0, s |-> "", items |-> xs]
PyTuple(xs)  == [t |-> "tuple", n |-> 0, s |-> "", items |-> xs]
PyDict(kvs)  == [t |-> "dict",  n |-> 0, s |-> "", items |-> kvs]
PyNone       == [t |-> "None",  n |-> 0, s |-> "", items |-> <<>>]
\* pandas.DataFrame: items = <<index, columns, rows>>, each a list
PyFrame(index, columns, rows) ==
    [t |-> "DataFrame", n |-> 0, s |-> "", items |-> <<index, columns, rows>>]

\* An exception raised inside a call, as the call's outcome
Raised(e) == [t |-> "raise", n |-> 0, s |-> e, items |-> <<>>]

\* str(k) for the ints of the model, and int(s) for the strings that read as one
Ints == -1..3
IsIntText(x) == \E k \in Ints : ToString(k) = x
IntOfText(x) == CHOOSE k \in Ints : ToString(k) = x

\* The mapping of the spec's end-to-end scenario: {"a": 1, "b": [1, 2, 3]}
Mapping == PyDict(<< <<PyStr("a"), PyInt(1)>>,
                     <<PyStr("b"), PyList(<<PyInt(1), PyInt(2), PyInt(3)>>)>> >>)

\* Values whose type every one of JSON, pickle and MessagePack keeps
PlainValues ==
    { PyInt(1), PyStr("a"), PyStr("1"), PyList(<<>>),
      PyList(<<PyInt(1), PyStr("a")>>), Mapping }

\* Values that a format may give back as another type
CoercedValues ==
    { PyTuple(<<PyInt(1), PyInt(2)>>),
      PyDict(<< <<PyInt(1), PyStr("a")>> >>),
      PyList(<<PyTuple(<<PyInt(1)>>)>>) }

Values == PlainValues \cup CoercedValues

RangeIndex(k) == PyList([i \in 1..k |-> PyInt(i - 1)])

\* Frames that a tab-separated file gives back as they were
PlainFrames ==
    { PyFrame(RangeIndex(2), PyList(<<PyStr("x"), PyStr("y")>>),
              PyList(<< PyList(<<PyInt(1), PyStr("a")>>),
                        PyList(<<PyInt(2), PyStr("b")>>) >>)),
      PyFrame(RangeIndex(1), PyList(<<PyStr("x")>>),
              PyList(<< PyList(<<PyInt(3)>>) >>)) }

\* Frames that it does not: a str cell that reads as a number, row labels
CoercedFrames ==
    { PyFrame(RangeIndex(1), PyList(<<PyStr("x")>>),
              PyList(<< PyList(<<PyStr("1")>>) >>)),
      PyFrame(PyList(<<PyStr("r")>>), PyList(<<PyStr("x")>>),
              PyList(<< PyList(<<PyInt(1)>>) >>)) }

Frames == PlainFrames \cup CoercedFrames

----------------------------------------------------------------------------
(* File contents: what each serializer writes and reads back *)

NoData == [fmt |-> "", doc |-> PyNone]
Content(fmt, doc) == [fmt |-> fmt, doc |-> doc]

MapSeq(F(_), xs) == [i \in 1..Len(xs) |-> F(xs[i])]

\* json.dump: the JSON text, as its syntax tree.  A list and a tuple are both
\* written as an array; an object's keys are strings, an int key is written
\* as str(key).
RECURSIVE json_encode(_)
json_key(k) == IF k.t = "int" THEN ToString(k.n) ELSE k.s
json_pair(kv) == <<json_key(kv[1]), json_encode(kv[2])>>
json_encode(v) ==
    CASE v.t = "int"   -> [j |-> "number", n |-> v.n, s |-> "", items |-> <<>>]
      [] v.t = "str"   -> [j |-> "string", n |-> 0, s |-> v.s, items |-> <<>>]
      [] v.t \in {"list", "tuple"} ->
             [j |-> "array", n |-> 0, s |-> "", items |-> MapSeq(json_encode, v.items)]
      [] v.t = "dict"  ->
             [j |-> "object", n |-> 0, s |-> "", items |-> MapSeq(json_pair, v.items)]
      [] OTHER         -> [j |-> "null", n |-> 0, s |-> "", items |-> <<>>]

\* json.load: an array becomes a list, an object a dict with str keys
RECURSIVE json_decode(_)
json_unpair(kv) == <<PyStr(kv[1]), json_decode(kv[2])>>
json_decode(d) ==
    CASE d.j = "number" -> PyInt(d.n)
      [] d.j = "string" -> PyStr(d.s)
      [] d.j = "array"  -> PyList(MapSeq(json_decode, d.items))
      [] d.j = "object" -> PyDict(MapSeq(json_unpair, d.items))
      [] OTHER          -> PyNone

\* pickle.dump / pickle.load: one opcode per type, so every type comes back
RECURSIVE pickle_encode(_)
pickle_pair(kv) == <<pickle_encode(kv[1]), pickle_encode(kv[2])>>
pickle_encode(v) ==
    CASE v.t = "int"   -> [op |-> "BININT", n |-> v.n, s |-> "", items |-> <<>>]
      [] v.t = "str"   -> [op |-> "BINUNICODE", n |-> 0, s |-> v.s, items |-> <<>>]
      [] v.t = "list"  -> [op |-> "LIST", n |-> 0, s |-> "", items |-> MapSeq(pickle_encode, v.items)]
      [] v.t = "tuple" -> [op |-> "TUPLE", n |-> 0, s |-> "", items |-> MapSeq(pickle_encode, v.items)]
      [] v.t = "dict"  -> [op |-> "DICT", n |-> 0, s |-> "", items |-> MapSeq(pickle_pair, v.items)]
      [] v.t = "DataFrame" ->
             [op |-> "REDUCE", n |-> 0, s |-> "", items |-> MapSeq(pickle_encode, v.items)]
      [] OTHER         -> [op |-> "NONE", n |-> 0, s |-> "", items |-> <<>>]

RECURSIVE pickle_decode(_)
pickle_unpair(kv) == <<pickle_decode(kv[1]), pickle_decode(kv[2])>>
pickle_decode(d) ==
    CASE d.op = "BININT"     -> PyInt(d.n)
      [] d.op = "BINUNICODE" -> PyStr(d.s)
      [] d.op = "LIST"       -> PyList(MapSeq(pickle_decode, d.items))
      [] d.op = "TUPLE"      -> PyTuple(MapSeq(pickle_decode, d.items))
      [] d.op = "DICT"       -> PyDict(MapSeq(pickle_unpair, d.items))
      [] d.op = "REDUCE"     ->
             LET xs == MapSeq(pickle_decode, d.items) IN PyFrame(xs[1], xs[2], xs[3])
      [] OTHER               -> PyNone

\* msgpack.pack (use_bin_type=True): a list and a tuple are both an array
RECURSIVE msgpack_encode(_)
msgpack_pair(kv) == <<msgpack_encode(kv[1]), msgpack_encode(kv[2])>>
msgpack_encode(v) ==
    CASE v.t = "int"   -> [m |-> "int", n |-> v.n, s |-> "", items |-> <<>>]
      [] v.t = "str"   -> [m |-> "str", n |-> 0, s |-> v.s, items |-> <<>>]
      [] v.t \in {"list", "tuple"} ->
             [m |-> "array", n |-> 0, s |-> "", items |-> MapSeq(msgpack_encode, v.items)]
      [] v.t = "dict"  ->
             [m |-> "map", n |-> 0, s |-> "", items |-> MapSeq(msgpack_pair, v.items)]
      [] OTHER         -> [m |-> "nil", n |-> 0, s |-> "", items |-> <<>>]

\* msgpack.unpack (raw=False, strict_map_key=True): an array becomes a list;
\* a map key that is neither str nor bytes raises ValueError
RECURSIVE msgpack_decode(_)
msgpack_unpair(kv) == <<msgpack_decode(kv[1]), msgpack_decode(kv[2])>>
msgpack_bad(d) ==
    \/ d.t = "raise"
    \/ \E i \in 1..Len(d.items) :
          IF d.t = "dict" THEN d.items[i][1].t # "str" \/ d.items[i][2].t = "raise"
          ELSE d.items[i].t = "raise"
msgpack_decode(d) ==
    LET v == CASE d.m = "int"   -> PyInt(d.n)
               [] d.m = "str"   -> PyStr(d.s)
               [] d.m = "array" -> PyList(MapSeq(msgpack_decode, d.items))
               [] d.m = "map"   -> PyDict(MapSeq(msgpack_unpair, d.items))
               [] OTHER         -> PyNone
    IN  IF msgpack_bad(v) THEN Raised("ValueError") ELSE v

\* DataFrame.to_csv(sep='\t', index=False): a header line of the column
\* names, then one line per row, every cell written as str(cell); the row
\* labels are not written.  The text is the list of its lines, a line the
\* list of its tab-separated fields.
cell_text(c) == IF c.t = "int" THEN ToString(c.n) ELSE c.s
tsv_encode(df) ==
    LET columns == df.items[2].items
        rows    == df.items[3].items
    IN  <<MapSeq(cell_text, columns)>> \o [i \in 1..Len(rows) |-> MapSeq(cell_text, rows[i].items)]

\* pandas.read_csv(sep='\t', header=0): the first line names the columns;
\* a column whose every field reads as an integer becomes an int column,
\* any other stays str; the index is a RangeIndex.
tsv_decode(lines) ==
    LET header == lines[1]
        body   == Tail(lines)
        isint(c) == \A i \in 1..Len(body) : IsIntText(body[i][c])
        cell(i, c) == IF isint(c) THEN PyInt(IntOfText(body[i][c])) ELSE PyStr(body[i][c])
    IN  PyFrame(RangeIndex(Len(body)),
                PyList(MapSeq(PyStr, header)),
                PyList([i \in 1..Len(body) |-> PyList([c \in 1..Len(header) |-> cell(i, c)])]))


----------------------------------------------------------------------------
(* fileio: the save and load functions *)

\* Every function below maps the file system (f: kinds, d: contents) and its
\* arguments to the outcome of the call: the file system it leaves, err
\* ("ok" or the exception that reaches the caller), the value returned, and
\* trace, the calls it made on the way, in order.
Outcome(f, d, err, ret, trace) ==
    [fs |-> f, data |-> d, err |-> err, ret |-> ret, trace |-> trace]

\* with open(filename, 'w') as f: <write content>
write_file(f, d, filename, content) ==
    LET o == open_w(f, filename) IN
    IF o.err # "ok" THEN Outcome(f, d, o.err, Raised(o.err), <<"open">>)
    ELSE Outcome(o.fs, [d EXCEPT ![o.node] = content], "ok", PyNone, <<"open", "write">>)

\* with open(filename) as f: <read>
read_file(f, d, filename) ==
    LET o == open_r(f, filename) IN
    IF o.err # "ok" THEN [err |-> o.err, content |-> NoData]
    ELSE [err |-> "ok", content |-> d[o.node]]

\* A save: make_parent_dir(filename), and only if that returned, the write
parent_then(m, d, w) ==
    IF m.err # "ok" THEN Outcome(m.fs, d, m.err, Raised(m.err), <<"make_parent_dir">>)
    ELSE [w EXCEPT !.trace = <<"make_parent_dir">> \o @]

\* A load: the parse of what was read.  A file written in another format is
\* a parse error of the serializer.
parsed(f, d, r, fmt, value, error) ==
    IF r.err # "ok" THEN Outcome(f, d, r.err, Raised(r.err), <<"open">>)
    ELSE IF r.content.fmt # fmt THEN Outcome(f, d, error, Raised(error), <<"open", "read">>)
    ELSE IF value.t = "raise" THEN Outcome(f, d, value.s, value, <<"open", "read">>)
    ELSE Outcome(f, d, "ok", value, <<"open", "read">>)

call_make_parent_dir(f, d, path) ==
    LET m == make_parent_dir(f, path) IN
    Outcome(m.fs, d, m.err, IF m.err = "ok" THEN PyNone ELSE Raised(m.err), <<"makedirs">>)

write(f, d, out, filename) ==
    LET m == make_parent_dir(f, filename) IN
    parent_then(m, d, write_file(m.fs, d, filename, Content("text", out)))

\* json_load as it would be had it ensured the parent directory like the saves
json_load_mkdirs(f, d, filename) ==
    LET m == make_parent_dir(f, filename)
        r == read_file(m.fs, d, filename)
    IN  parsed(m.fs, d, r, "json", json_decode(r.content.doc), "JSONDecodeError")

json_load(f, d, filename) ==
    LET r == read_file(f, d, filename) IN
    parsed(f, d, r, "json", json_decode(r.content.doc), "JSONDecodeError")

json_dump(f, d, v, filename) ==
    LET m == make_parent_dir(f, filename) IN
    parent_then(m, d, write_file(m.fs, d, filename, Content("json", json_encode(v))))

read_tsv(f, d, filename) ==
    LET r == read_file(f, d, filename) IN
    parsed(f, d, r, "tsv", tsv_decode(r.content.doc), "ParserError")

to_tsv(f, d, df, filename) ==
    LET m == make_parent_dir(f, filename) IN
    parent_then(m, d, write_file(m.fs, d, filename, Content("tsv", tsv_encode(df))))

pickle_load(f, d, filename) ==
    LET r == read_file(f, d, filename) IN
    parsed(f, d, r, "pickle", pickle_decode(r.content.doc), "UnpicklingError")

pickle_dump(f, d, obj, filename) ==
    LET m == make_parent_dir(f, filename) IN
    parent_then(m, d, write_file(m.fs, d, filename, Content("pickle", pickle_encode(obj))))

pack_msgpack(f, d, o, filename) ==
    LET m == make_parent_dir(f, filename) IN
    parent_then(m, d, write_file(m.fs, d, filename, Content("msgpack", msgpack_encode(o))))

unpack_msgpack(f, d, filename) ==
    LET r == read_file(f, d, filename) IN
    parsed(f, d, r, "msgpack", msgpack_decode(r.content.doc), "UnpackException")

\* md5(filename) as one call: the digest of the file's content (the chunked
\* read is modelled step by step further down)
md5(f, d, filename) ==
    LET r == read_file(f, d, filename) IN
    IF r.err # "ok" THEN Outcome(f, d, r.err, Raised(r.err), <<"open">>)
    ELSE Outcome(f, d, "ok",
                 [t |-> "md5", n |-> 0, s |-> r.content.fmt, items |-> <<r.content.doc>>],
                 <<"open", "read">>)

SaveOps == {"write", "json_dump", "to_tsv", "pickle_dump", "pack_msgpack", "savefig"}
LoadOps == {"json_load", "read_tsv", "pickle_load", "unpack_msgpack", "md5"}

----------------------------------------------------------------------------
(* State *)

NoCall == [op |-> "", path |-> EmptyPath, val |-> PyNone, err |-> "", ret |-> PyNone,
           trace |-> <<>>, pre |-> <<>>]

EmptyFs == [n \in Nodes |-> IF n = Root THEN "dir" ELSE "none"]
NoFiles == [n \in Nodes |-> NoData]

\* The file systems a behaviour starts from: nothing but the root; a
\* directory a/ holding a JSON file a/b; a regular file named a.
InitFiles ==
    { [fs |-> EmptyFs, data |-> NoFiles],
      [fs |-> [EmptyFs EXCEPT ![<<"a">>] = "dir", ![<<"a", "b">>] = "file"],
       data |-> [NoFiles EXCEPT ![<<"a", "b">>] = Content("json", json_encode(Mapping))]],
      [fs |-> [EmptyFs EXCEPT ![<<"a">>] = "file"],
       data |-> [NoFiles EXCEPT ![<<"a">>] = Content("text", PyStr("a"))]] }

InitFileSystem ==
    /\ \E F \in InitFiles : fs = F.fs /\ data = F.data
    /\ last = NoCall
    /\ nops = 0

\* The specifications of the plotting helpers and of md5's loop leave the
\* file system alone
NoFileSystem == fs = EmptyFs /\ data = NoFiles /\ last = NoCall /\ nops = 0

NoFigures == figs = <<>>
NoAxes == ylims = <<>> /\ drawn = <<>>
NoMd5 == md5st = <<>>

Init == InitFileSystem /\ NoFigures /\ NoAxes /\ NoMd5

\* The filename of the next call: any path for the first call of a
\* behaviour, the same path again for the calls after it
Filenames == IF nops = 0 THEN Paths ELSE {last.path}

\* The call op(val, path) with outcome r.  A behaviour is at most MaxOps
\* calls, all with the same filename argument.
Called(op, path, val, r) ==
    /\ nops < MaxOps
    /\ path \in Filenames
    /\ fs' = r.fs
    /\ data' = r.data
    /\ last' = [op |-> op, path |-> path, val |-> val, err |-> r.err, ret |-> r.ret,
                trace |-> r.trace, pre |-> fs]
    /\ nops' = nops + 1

\* The payload each save of Spec writes
SomeValue == Mapping
SomeFrame == PyFrame(RangeIndex(1), PyList(<<PyStr("x")>>), PyList(<< PyList(<<PyInt(3)>>) >>))

FileCall(op, path, val, r) ==
    Called(op, path, val, r) /\ UNCHANGED <<figs, ylims, drawn, md5st>>

MakeParentDir(p)  == FileCall("make_parent_dir", p, PyNone, call_make_parent_dir(fs, data, p))
Write(v, p)       == FileCall("write", p, v, write(fs, data, v, p))
JsonLoad(p)       == FileCall("json_load", p, PyNone, json_load(fs, data, p))
JsonDump(v, p)    == FileCall("json_dump", p, v, json_dump(fs, data, v, p))
ReadTsv(p)        == FileCall("read_tsv", p, PyNone, read_tsv(fs, data, p))
ToTsv(v, p)       == FileCall("to_tsv", p, v, to_tsv(fs, data, v, p))
PickleLoad(p)     == FileCall("pickle_load", p, PyNone, pickle_load(fs, data, p))
PickleDump(v, p)  == FileCall("pickle_dump", p, v, pickle_dump(fs, data, v, p))
PackMsgpack(v, p) == FileCall("pack_msgpack", p, v, pack_msgpack(fs, data, v, p))
UnpackMsgpack(p)  == FileCall("unpack_msgpack", p, PyNone, unpack_msgpack(fs, data, p))
Md5(p)            == FileCall("md5", p, PyNone, md5(fs, data, p))

Next ==
    \/ \E p \in Filenames : MakeParentDir(p)
    \/ \E p \in Filenames : Write(PyStr("a"), p)
    \/ \E p \in Filenames : JsonLoad(p)
    \/ \E p \in Filenames : JsonDump(SomeValue, p)
    \/ \E p \in Filenames : ReadTsv(p)
    \/ \E p \in Filenames : ToTsv(SomeFrame, p)
    \/ \E p \in Filenames : PickleLoad(p)
    \/ \E p \in Filenames : PickleDump(SomeValue, p)
    \/ \E p \in Filenames : PackMsgpack(SomeValue, p)
    \/ \E p \in Filenames : UnpackMsgpack(p)
    \/ \E p \in Filenames : Md5(p)

Spec == Init /\ [][Next]_vars

\* Round trips: a save of any value of the model, then the load of the same
\* format from the same path
Saved(op) == nops = 1 /\ last.op = op /\ last.err = "ok"

NextRT ==
    \/ \E p \in Paths, v \in Values : nops = 0 /\ JsonDump(v, p)
    \/ \E p \in Paths, v \in Frames : nops = 0 /\ ToTsv(v, p)
    \/ \E p \in Paths, v \in Values \cup Frames : nops = 0 /\ PickleDump(v, p)
    \/ \E p \in Paths, v \in Values : nops = 0 /\ PackMsgpack(v, p)
    \/ Saved("json_dump") /\ JsonLoad(last.path)
    \/ Saved("to_tsv") /\ ReadTsv(last.path)
    \/ Saved("pickle_dump") /\ PickleLoad(last.path)
    \/ Saved("pack_msgpack") /\ UnpackMsgpack(last.path)

SpecRT == Init /\ [][NextRT]_vars


----------------------------------------------------------------------------
(* mplhelper.savefig and pyplot's figures *)

MaxFigs == 2     \* figures the caller opens with plt.figure()

\* pyplot keeps the open figures in order of activation; the current figure
\* is the last.  saved: written to disk by plt.savefig; tight: laid out by
\* plt.tight_layout.
NewFigure(g) ==
    [num |-> CHOOSE k \in 1..(Len(g) + 1) : \A i \in 1..Len(g) : g[i].num # k,
     saved |-> FALSE, tight |-> FALSE]

\* plt.figure()
plt_figure(g) == Append(g, NewFigure(g))

\* plt.gcf(): the current figure, a new one if there is none
gcf(g) == IF g = <<>> THEN plt_figure(g) ELSE g

\* plt.tight_layout()
plt_tight_layout(g) == LET h == gcf(g) IN [h EXCEPT ![Len(h)].tight = TRUE]

\* plt.close(): closes the current figure, if any
plt_close(g) == IF g = <<>> THEN g ELSE Front(g)

\* Keyword arguments: a list of <<name, value>> pairs
kw_has(kw, k) == \E i \in 1..Len(kw) : kw[i][1] = k
kw_get(kw, k, default) ==
    IF kw_has(kw, k) THEN kw[CHOOSE i \in 1..Len(kw) : kw[i][1] = k][2] ELSE default
kw_del(kw, k) == SelectSeq(kw, LAMBDA e : e[1] # k)

\* plt.savefig(filename, **kw): writes the current figure to filename
plt_savefig(f, d, g, filename, kw) ==
    LET h == gcf(g)
        w == write_file(f, d, filename,
                        Content("figure", [num |-> Last(h).num, tight |-> Last(h).tight, kw |-> kw]))
    IN  [out |-> w, figs |-> IF w.err = "ok" THEN [h EXCEPT ![Len(h)].saved = TRUE] ELSE h]

\* savefig without its last line, plt.close()
savefig_noclose(f, d, g, filename, kwargs) ==
    LET m            == make_parent_dir(f, filename)
        tight_layout == kw_get(kwargs, "tight_layout", FALSE)
        kw           == kw_del(kwargs, "tight_layout")
        g1           == IF tight_layout THEN plt_tight_layout(g) ELSE g
        t1           == IF tight_layout THEN <<"plt.tight_layout">> ELSE <<>>
        s            == plt_savefig(m.fs, d, g1, filename, kw)
    IN  IF m.err # "ok"
        THEN [out |-> Outcome(m.fs, d, m.err, Raised(m.err), <<"make_parent_dir">>), figs |-> g]
        ELSE [out |-> [s.out EXCEPT !.trace = <<"make_parent_dir">> \o t1 \o <<"plt.savefig">>,
                                    !.ret = IF s.out.err = "ok" THEN PyList(kw) ELSE @],
              figs |-> s.figs]

savefig(f, d, g, filename, kwargs) ==
    LET m            == make_parent_dir(f, filename)
        tight_layout == kw_get(kwargs, "tight_layout", FALSE)
        kw           == kw_del(kwargs, "tight_layout")
        g1           == IF tight_layout THEN plt_tight_layout(g) ELSE g
        t1           == IF tight_layout THEN <<"plt.tight_layout">> ELSE <<>>
        s            == plt_savefig(m.fs, d, g1, filename, kw)
    IN  IF m.err # "ok"
        THEN [out |-> Outcome(m.fs, d, m.err, Raised(m.err), <<"make_parent_dir">>), figs |-> g]
        ELSE IF s.out.err # "ok"
        THEN [out |-> [s.out EXCEPT !.trace = <<"make_parent_dir">> \o t1 \o <<"plt.savefig">>],
              figs |-> s.figs]
        ELSE [out |-> [s.out EXCEPT !.trace = <<"make_parent_dir">> \o t1 \o <<"plt.savefig", "plt.close">>,
                                    !.ret = PyList(kw)],
              figs |-> plt_close(s.figs)]

Kwargs ==
    { <<>>,
      << <<"tight_layout", TRUE>> >>,
      << <<"tight_layout", FALSE>> >>,
      << <<"dpi", 300>> >>,
      << <<"dpi", 300>>, <<"tight_layout", TRUE>> >> }

PltFigure ==
    /\ Len(figs) < MaxFigs
    /\ figs' = plt_figure(figs)
    /\ UNCHANGED <<fs, data, last, nops, ylims, drawn, md5st>>

Savefig(p, kwargs) ==
    LET r == savefig(fs, data, figs, p, kwargs) IN
    /\ Called("savefig", p, PyList(kwargs), r.out)
    /\ figs' = r.figs
    /\ UNCHANGED <<ylims, drawn, md5st>>

NextFig ==
    \/ PltFigure
    \/ \E p \in Filenames, kwargs \in Kwargs : Savefig(p, kwargs)

SpecFig == Init /\ [][NextFig]_vars


----------------------------------------------------------------------------
(* mplhelper.autotext *)

\* Axes-fraction coordinates are counted in quarters: 0 is 0.0, Half is 0.5,
\* One is 1.0.
Half == 2
One == 4
MaxCoord == 5    \* coordinates range over -1 .. MaxCoord quarters

Coords == -1..MaxCoord

Axes == {"ax1", "ax2"}
\* plt.gca(): the current axes
gca == "ax1"

\* dict.update: the entries of new replace those of old
dict_update(old, new) == new @@ old

NoKw == [k \in {} |-> ""]

TextKwargs ==
    { NoKw,
      [k \in {"color"} |-> "red"],
      [k \in {"ha"} |-> "right"],
      [k \in {"va", "color"} |-> IF k = "va" THEN "top" ELSE "red"] }

\* autotext with the vertical alignment computed from x instead of y
autotext_va_from_x(x, y, s, ax, kwargs) ==
    LET ax1     == IF ax = "None" THEN gca ELSE ax
        ha      == IF x = Half THEN "center" ELSE (IF x < Half THEN "left" ELSE "right")
        va      == IF x = Half THEN "center" ELSE (IF x < Half THEN "bottom" ELSE "top")
        text_kw == dict_update([k \in {"xycoords", "ha", "va"} |->
                                   CASE k = "xycoords" -> "axes fraction"
                                     [] k = "ha" -> ha
                                     [] k = "va" -> va],
                               kwargs)
    IN  [fn |-> "autotext", ax |-> ax1, err |-> "ok",
         calls |-> << [method |-> "annotate", s |-> s, xy |-> <<x, y>>, kw |-> text_kw] >>]

autotext(x, y, s, ax, kwargs) ==
    LET ax1     == IF ax = "None" THEN gca ELSE ax
        ha      == IF x = Half THEN "center" ELSE (IF x < Half THEN "left" ELSE "right")
        va      == IF y = Half THEN "center" ELSE (IF y < Half THEN "bottom" ELSE "top")
        text_kw == dict_update([k \in {"xycoords", "ha", "va"} |->
                                   CASE k = "xycoords" -> "axes fraction"
                                     [] k = "ha" -> ha
                                     [] k = "va" -> va],
                               kwargs)
    IN  [fn |-> "autotext", ax |-> ax1, err |-> "ok",
         calls |-> << [method |-> "annotate", s |-> s, xy |-> <<x, y>>, kw |-> text_kw] >>]

----------------------------------------------------------------------------
(* mplhelper.autolabel *)

MaxRects == 2    \* bars in one call

\* Bar heights and y-limits the calls draw from
Heights == {-15, -1, 0, 5, 10, 15}
Ylims == {<<0, 10>>, <<-10, 0>>, <<5, 5>>, <<-1, 15>>, <<10, 0>>}

\* A bar: rect.get_x(), rect.get_width(), rect.get_height()
Rects == [x : {0, 1}, width : {1}, height : Heights]

\* str.lower() on the xpos arguments of the model
lower(xpos) ==
    CASE xpos = "Center" -> "center"
      [] xpos = "LEFT"   -> "left"
      [] OTHER           -> xpos

Xpos == {"center", "right", "left", "Center", "LEFT", "top"}

\* The tables of autolabel; offsets are counted in hundredths of a bar width
ha_of(xpos) ==
    CASE xpos = "center" -> "center" [] xpos = "right" -> "left" [] xpos = "left" -> "right"
offset_of(xpos) ==
    CASE xpos = "center" -> 50 [] xpos = "right" -> 57 [] xpos = "left" -> 43

\* formatstr.format(height): the template's text around the number
Formats == { <<"", "">>, <<"", "%">> }
format(formatstr, height) == <<formatstr[1], ToString(height), formatstr[2]>>

\* ylim=None and an empty ylim are both false in "if ylim"
NoYlim == <<>>
truthy(ylim) == ylim # <<>>

\* The loop body without the two assignments to va under "if ylim"
label_of_va_unforced(rect, xpos, formatstr, ylim, kwargs) ==
    LET height0 == rect.height
        va0     == IF height0 >= 0 THEN "bottom" ELSE "top"
        low     == truthy(ylim) /\ height0 < ylim[1]
        height1 == IF low THEN ylim[1] ELSE height0
        high    == truthy(ylim) /\ ylim[2] < height1
        height  == IF high THEN ylim[2] ELSE height1
    IN  [method |-> "text", x |-> 100 * rect.x + rect.width * offset_of(xpos), y |-> height,
         s |-> format(formatstr, height), ha |-> ha_of(xpos), va |-> va0, kw |-> kwargs,
         rect |-> rect]

\* One pass of the loop body: the ax.text call for one bar
label_of(rect, xpos, formatstr, ylim, kwargs) ==
    LET height0 == rect.height
        va0     == IF height0 >= 0 THEN "bottom" ELSE "top"
        low     == truthy(ylim) /\ height0 < ylim[1]
        height1 == IF low THEN ylim[1] ELSE height0
        va1     == IF low THEN "bottom" ELSE va0
        high    == truthy(ylim) /\ ylim[2] < height1
        height  == IF high THEN ylim[2] ELSE height1
        va      == IF high THEN "top" ELSE va1
    IN  [method |-> "text", x |-> 100 * rect.x + rect.width * offset_of(xpos), y |-> height,
         s |-> format(formatstr, height), ha |-> ha_of(xpos), va |-> va, kw |-> kwargs,
         rect |-> rect]

autolabel(rects, xpos, formatstr, ax, ylim, kwargs) ==
    LET xp  == lower(xpos)
        ax1 == IF ax = "None" THEN gca ELSE ax
    IN  IF rects # <<>> /\ xp \notin {"center", "right", "left"}
        THEN [fn |-> "autolabel", ax |-> ax1, err |-> "KeyError", calls |-> <<>>]
        ELSE [fn |-> "autolabel", ax |-> ax1, err |-> "ok",
              calls |-> [i \in 1..Len(rects) |-> label_of(rects[i], xp, formatstr, ylim, kwargs)]]

NoDraw == [fn |-> "", ax |-> "", err |-> "", calls |-> <<>>]

\* The calls a behaviour of SpecText may make: the helper and its arguments
AutotextCalls ==
    [fn : {"autotext"}, x : Coords, y : Coords, ax : Axes \cup {"None"}, kwargs : TextKwargs]
AutolabelCalls ==
    [fn : {"autolabel"}, rects : SeqsUpTo(Rects, MaxRects), xpos : Xpos, formatstr : Formats,
     ax : Axes \cup {"None"}, ylim : Ylims \cup {NoYlim}, kwargs : {NoKw}]

\* drawn: the call (in), whether it has been made, and what it drew (out)
InitText ==
    /\ NoFileSystem /\ NoFigures /\ NoMd5
    /\ ylims = <<>>
    /\ \E c \in AutotextCalls \cup AutolabelCalls : drawn = [in |-> c, done |-> FALSE, out |-> NoDraw]

Autotext ==
    /\ drawn.in.fn = "autotext" /\ ~drawn.done
    /\ drawn' = [drawn EXCEPT !.done = TRUE,
                              !.out = autotext(drawn.in.x, drawn.in.y, "label", drawn.in.ax,
                                               drawn.in.kwargs)]
    /\ UNCHANGED <<fs, data, last, nops, figs, ylims, md5st>>

Autolabel ==
    /\ drawn.in.fn = "autolabel" /\ ~drawn.done
    /\ drawn' = [drawn EXCEPT !.done = TRUE,
                              !.out = autolabel(drawn.in.rects, drawn.in.xpos, drawn.in.formatstr,
                                                drawn.in.ax, drawn.in.ylim, drawn.in.kwargs)]
    /\ UNCHANGED <<fs, data, last, nops, figs, ylims, md5st>>

NextText == Autotext \/ Autolabel

SpecText == InitText /\ [][NextText]_vars


----------------------------------------------------------------------------
(* mplhelper.set_ylim_symm and set_sharey_symm *)

MaxY == 5        \* y-limits range over -MaxY .. MaxY
MaxAxs == 2      \* axes in the list given to set_sharey_symm

abs(v) == IF v < 0 THEN -v ELSE v
max2(a, b) == IF a >= b THEN a ELSE b

\* The y-ranges an axes can have: matplotlib never keeps bottom = top
Ranges == {r \in (-MaxY..MaxY) \X (-MaxY..MaxY) : r[1] # r[2]}

\* ylims = [lim |-> axes -> <<bottom, top>>, sharey |-> whether the axes were
\* made with sharey=True, so that a change of one's range changes all]
get_ylim(yl, ax) == yl.lim[ax]
set_ylim(yl, ax, bottom, top) ==
    [yl EXCEPT !.lim = [a \in Axes |-> IF a = ax \/ yl.sharey THEN <<bottom, top>> ELSE @[a]]]

set_ylim_symm(yl, ax) ==
    LET yb      == get_ylim(yl, ax)[1]
        yt      == get_ylim(yl, ax)[2]
        yabsmax == max2(abs(yb), abs(yt))
    IN  set_ylim(yl, ax, -yabsmax, yabsmax)

\* The first loop of set_sharey_symm: the largest |limit| of the axes in axs
RECURSIVE sharey_absmax(_, _, _)
sharey_absmax(yl, axs, yabsmax) ==
    IF axs = <<>> THEN yabsmax
    ELSE LET yb == get_ylim(yl, Head(axs))[1]
             yt == get_ylim(yl, Head(axs))[2]
         IN  sharey_absmax(yl, Tail(axs), max2(max2(abs(yb), abs(yt)), yabsmax))

\* The second loop: the same range for each
RECURSIVE sharey_apply(_, _, _)
sharey_apply(yl, axs, yabsmax) ==
    IF axs = <<>> THEN yl
    ELSE sharey_apply(set_ylim(yl, Head(axs), -yabsmax, yabsmax), Tail(axs), yabsmax)

\* set_sharey_symm as one loop that makes each axes symmetric on its own
RECURSIVE set_sharey_symm_each(_, _)
set_sharey_symm_each(yl, axs) ==
    IF axs = <<>> THEN yl
    ELSE set_sharey_symm_each(set_ylim_symm(yl, Head(axs)), Tail(axs))

set_sharey_symm(yl, axs) == sharey_apply(yl, axs, sharey_absmax(yl, axs, 0))

LimitCalls == [fn : {"set_ylim_symm"}, axs : [1..1 -> Axes]]
                 \cup [fn : {"set_sharey_symm"}, axs : SeqsUpTo(Axes, MaxAxs)]

\* drawn: the call (in), whether it has been made, and the ranges before it
InitLimits ==
    /\ NoFileSystem /\ NoFigures /\ NoMd5
    /\ \E lim \in [Axes -> Ranges], sharey \in BOOLEAN :
          /\ sharey => \A a, b \in Axes : lim[a] = lim[b]
          /\ ylims = [lim |-> lim, sharey |-> sharey]
    /\ \E c \in LimitCalls : drawn = [in |-> c, done |-> FALSE, pre |-> <<>>]

SetYlimSymm ==
    /\ drawn.in.fn = "set_ylim_symm" /\ ~drawn.done
    /\ ylims' = set_ylim_symm(ylims, drawn.in.axs[1])
    /\ drawn' = [drawn EXCEPT !.done = TRUE, !.pre = ylims.lim]
    /\ UNCHANGED <<fs, data, last, nops, figs, md5st>>

SetShareySymm ==
    /\ drawn.in.fn = "set_sharey_symm" /\ ~drawn.done
    /\ ylims' = set_sharey_symm(ylims, drawn.in.axs)
    /\ drawn' = [drawn EXCEPT !.done = TRUE, !.pre = ylims.lim]
    /\ UNCHANGED <<fs, data, last, nops, figs, md5st>>

NextLimits == SetYlimSymm \/ SetShareySymm

SpecLimits == InitLimits /\ [][NextLimits]_vars

----------------------------------------------------------------------------
(* fileio.md5, one step of its loop at a time *)

ChunkSize == 4096
MaxChunks == 2   \* files are up to MaxChunks * ChunkSize + 1 bytes long

\* File contents: the byte at offset i is i * m mod 256
Multipliers == {1, 3, 7}
Bytes(len, m) == [i \in 1..len |-> (i * m) % 256]
Lengths == {n \in {k * ChunkSize + e : k \in 0..MaxChunks, e \in {-1, 0, 1}} : n >= 0}

min2(a, b) == IF a <= b THEN a ELSE b

\* f.read(size) at offset pos: the next size bytes, fewer at the end of the
\* file, none after it
read(content, pos, size) == SubSeq(content, pos + 1, min2(pos + size, Len(content)))

\* hashlib.md5: the digest is a function of the bytes fed to update(), in
\* the order they were fed
hexdigest(fed) == [alg |-> "md5", of |-> fed]

\* md5st: pc is the place in md5(), pos the file offset, chunk the bytes last
\* read, fed the bytes given to hash_md5.update so far, updates the length of
\* each chunk fed, ret the value returned
InitMd5 ==
    /\ NoFileSystem /\ NoFigures /\ NoAxes
    /\ \E len \in Lengths, m \in Multipliers :
          md5st = [pc |-> "read", content |-> Bytes(len, m), pos |-> 0, chunk |-> <<>>,
                   fed |-> <<>>, updates |-> <<>>, ret |-> hexdigest(<<>>)]

\* The loop's read with the sentinel compared to a short chunk: the loop
\* ends at the first chunk of fewer than ChunkSize bytes, which is not fed
md5_read_short_ends(st) ==
    LET chunk == read(st.content, st.pos, ChunkSize) IN
    [st EXCEPT !.chunk = chunk, !.pos = @ + Len(chunk),
               !.pc = IF Len(chunk) < ChunkSize THEN "return" ELSE "update"]

\* iter(lambda: f.read(4096), b''): the next chunk, or the end of the loop
md5_read(st) ==
    LET chunk == read(st.content, st.pos, ChunkSize) IN
    [st EXCEPT !.chunk = chunk, !.pos = @ + Len(chunk),
               !.pc = IF chunk = <<>> THEN "return" ELSE "update"]

\* hash_md5.update(chunk)
md5_update(st) ==
    [st EXCEPT !.fed = @ \o st.chunk, !.updates = Append(@, Len(st.chunk)), !.pc = "read"]

\* return hash_md5.hexdigest()
md5_return(st) == [st EXCEPT !.ret = hexdigest(st.fed), !.pc = "done"]

Md5Step(pc, next) ==
    /\ md5st.pc = pc
    /\ md5st' = next
    /\ UNCHANGED <<fs, data, last, nops, figs, ylims, drawn>>

Md5Read == Md5Step("read", md5_read(md5st))
Md5Update == Md5Step("update", md5_update(md5st))
Md5Return == Md5Step("return", md5_return(md5st))

NextMd5 == Md5Read \/ Md5Update \/ Md5Return

\* The loop runs in one thread that nothing suspends: a step that can be
\* taken is taken
SpecMd5 == InitMd5 /\ [][NextMd5]_vars /\ WF_vars(NextMd5)


----------------------------------------------------------------------------
(* The claims *)

\* What a path means in a file system f
IsFilePath(p) == p.parts # <<>> /\ Last(p.parts) \in Names
ParentDirExists(f, p) == ~nonempty(dirname(p)) \/ isdir(f, dirname(p))
AllDirs(f) == [n \in Nodes |-> IF f[n] = "none" THEN "dir" ELSE f[n]]
\* Nothing but missing directories stands between f and a file at p: no
\* regular file is in the way of a directory and no directory in the way of
\* the file
OnlyDirsMissing(f, p) ==
    /\ IsFilePath(p)
    /\ lookup(AllDirs(f), p).err = "ok"
    /\ f[lookup(AllDirs(f), p).node] # "dir"
IsSave == last.op \in SaveOps
IsLoad == last.op \in LoadOps

\* C1: every save calls make_parent_dir before it opens the destination, so
\* that a save whose make_parent_dir call has returned does not fail at a
\* destination whose parent directory was absent and that nothing else
\* obstructed.
C1_SaveNeverFailsForAbsentParent ==
    (/\ IsSave
     /\ Len(last.trace) >= 2 /\ last.trace[1] = "make_parent_dir"
     /\ ~ParentDirExists(last.pre, last.path)
     /\ OnlyDirsMissing(last.pre, last.path))
        => last.err = "ok"

\* C2: make_parent_dir called with a file path whose parent directory
\* exists returns without error and leaves the parent directory present.
C2_MakeParentDirIdempotent ==
    (last.op = "make_parent_dir" /\ IsFilePath(last.path) /\ ParentDirExists(last.pre, last.path))
        => (last.err = "ok" /\ ParentDirExists(fs, last.path))

\* C3: for each format, saving a value that the format represents exactly
\* to any file path that only lacks directories succeeds, and loading that
\* path then returns the value saved.
DumpOps == {"json_dump", "to_tsv", "pickle_dump", "pack_msgpack"}
Exact(op, v) == IF op = "pickle_dump" THEN TRUE ELSE v \in PlainValues \cup PlainFrames
C3_RoundTrip ==
    [][ /\ (last'.op \in DumpOps /\ Exact(last'.op, last'.val) /\ OnlyDirsMissing(fs, last'.path))
            => last'.err = "ok"
        /\ (last.op \in DumpOps /\ Exact(last.op, last.val) /\ last'.op \notin DumpOps)
            => last'.ret = last.val ]_vars

\* C4: with ylim = (lo, hi), lo <= hi, every label of autolabel is at the
\* bar's height clamped into [lo, hi], aligned 'bottom' under a bar lower than
\* lo, 'top' over a bar higher than hi, and else by the sign of the height.
Clamp(h, lo, hi) == IF h < lo THEN lo ELSE IF h > hi THEN hi ELSE h
Labelled == drawn.done /\ drawn.in.fn = "autolabel" /\ drawn.out.err = "ok"
C4_LabelClampedIntoYlim ==
    (Labelled /\ truthy(drawn.in.ylim) /\ drawn.in.ylim[1] <= drawn.in.ylim[2]) =>
        /\ Len(drawn.out.calls) = Len(drawn.in.rects)
        /\ \A i \in 1..Len(drawn.in.rects) :
              LET h  == drawn.in.rects[i].height
                  lo == drawn.in.ylim[1]
                  hi == drawn.in.ylim[2]
                  c  == drawn.out.calls[i]
              IN  /\ c.y = Clamp(h, lo, hi)
                  /\ c.va = IF h < lo THEN "bottom"
                            ELSE IF h > hi THEN "top"
                            ELSE IF h >= 0 THEN "bottom" ELSE "top"
C4_Witness ==
    /\ Labelled /\ drawn.in.ylim = <<0, 10>>
    /\ \E i, j \in 1..Len(drawn.in.rects) :
          /\ drawn.in.rects[i].height = -15 /\ drawn.out.calls[i].va = "bottom"
          /\ drawn.in.rects[j].height = 15 /\ drawn.out.calls[j].va = "top"

\* C5: the text of every label of autolabel is the format template applied
\* to the bar's own height, also when the label's position was clamped.
C5_TextShowsTrueHeight ==
    Labelled =>
        \A i \in 1..Len(drawn.in.rects) :
            drawn.out.calls[i].s = format(drawn.in.formatstr, drawn.in.rects[i].height)

\* C6: autotext without ha/va among its keyword arguments annotates at the
\* axes fraction (x, y), aligned center/left/right as x is equal to, below
\* or above 0.5, and center/bottom/top as y is.
Annotated == drawn.done /\ drawn.in.fn = "autotext"
C6_AutotextAlignment ==
    (Annotated /\ "ha" \notin DOMAIN drawn.in.kwargs /\ "va" \notin DOMAIN drawn.in.kwargs) =>
        LET c == drawn.out.calls[1]
            x == drawn.in.x
            y == drawn.in.y
        IN  /\ Len(drawn.out.calls) = 1
            /\ c.method = "annotate" /\ c.xy = <<x, y>> /\ c.kw["xycoords"] = "axes fraction"
            /\ (c.kw["ha"] = "center") = (x = Half)
            /\ (c.kw["ha"] = "left") = (x < Half)
            /\ (c.kw["ha"] = "right") = (x > Half)
            /\ (c.kw["va"] = "center") = (y = Half)
            /\ (c.kw["va"] = "bottom") = (y < Half)
            /\ (c.kw["va"] = "top") = (y > Half)
C6_Witness ==
    /\ Annotated /\ drawn.in.x = 0 /\ drawn.in.y = One /\ drawn.in.kwargs = NoKw
    /\ drawn.out.calls[1].kw["ha"] = "left" /\ drawn.out.calls[1].kw["va"] = "top"

\* C7: after set_ylim_symm or set_sharey_symm every axes given has the range
\* [-m, m], m being the largest |limit| that the given axes had before the
\* call.
Given == {drawn.in.axs[i] : i \in 1..Len(drawn.in.axs)}
AbsMaxBefore ==
    LET ms == {abs(drawn.pre[a][k]) : a \in Given, k \in 1..2} IN
    CHOOSE m \in ms : \A n \in ms : n <= m
C7_SymmetricSharedRange ==
    (drawn.done /\ Given # {}) =>
        \A a \in Given : ylims.lim[a] = <<-AbsMaxBefore, AbsMaxBefore>>
C7_Witness ==
    /\ drawn.done /\ drawn.in.fn = "set_sharey_symm" /\ drawn.in.axs = <<"ax1", "ax2">>
    /\ ~ylims.sharey
    /\ drawn.pre["ax1"] = <<-2, 5>> /\ drawn.pre["ax2"] = <<1, 3>>
    /\ ylims.lim["ax1"] = <<-5, 5>> /\ ylims.lim["ax2"] = <<-5, 5>>

\* C8: a load of a path at which no file exists raises the error of the one
\* open it attempts, and the file system after it is the file system before.
C8_LoadOfMissingFileRaises ==
    (IsLoad /\ ~exists(last.pre, last.path)) =>
        /\ last.err \in {"FileNotFoundError", "NotADirectoryError"}
        /\ last.ret = Raised(last.err)
        /\ last.trace = <<"open">>
        /\ fs = last.pre
C8_Witness ==
    /\ IsLoad /\ Len(last.path.parts) = 3 /\ last.path.parts[1] \in Names
    /\ ~ParentDirExists(last.pre, last.path)
    /\ last.err = "FileNotFoundError"

\* C9: savefig ensures the parent directory, lays the figure out tightly if
\* and only if tight_layout is true, writes the figure with the other
\* keyword arguments, and closes it, in this order; no figure that was saved
\* is left open.
SavefigSteps(kwargs) ==
    <<"make_parent_dir">>
        \o (IF kw_get(kwargs, "tight_layout", FALSE) THEN <<"plt.tight_layout">> ELSE <<>>)
        \o <<"plt.savefig", "plt.close">>
IsPrefix(a, b) == Len(a) <= Len(b) /\ a = SubSeq(b, 1, Len(a))
C9_SavefigOrderAndClose ==
    /\ \A i \in 1..Len(figs) : ~figs[i].saved
    /\ last.op = "savefig" =>
          LET kwargs == last.val.items
              steps  == SavefigSteps(kwargs)
              file   == data[lookup(fs, last.path).node].doc
          IN  /\ last.trace # <<>> /\ IsPrefix(last.trace, steps)
              /\ last.err = "ok" =>
                    /\ last.trace = steps
                    /\ file.tight = kw_get(kwargs, "tight_layout", FALSE)
                    /\ ~kw_has(file.kw, "tight_layout")
                    /\ \A k \in {"dpi"} : kw_has(file.kw, k) = kw_has(kwargs, k)
C9_Witness ==
    /\ last.op = "savefig" /\ last.err = "ok" /\ nops = 2
    /\ kw_get(last.val.items, "tight_layout", FALSE)
    /\ kw_has(last.val.items, "dpi")
    /\ Len(figs) = 1

\* C10: md5 ends for every file; when it has ended, the chunks it fed to the
\* digest were each of 1 to 4096 bytes, as many as the file's length needs,
\* and together exactly the file's content, and the value returned is the
\* digest of that content.
Md5Done == md5st.pc = "done"
C10_Md5FeedsWholeFile ==
    /\ <>Md5Done
    /\ [](Md5Done =>
            /\ md5st.fed = md5st.content
            /\ md5st.ret = hexdigest(md5st.content)
            /\ \A i \in 1..Len(md5st.updates) : md5st.updates[i] \in 1..ChunkSize
            /\ Len(md5st.updates) = (Len(md5st.content) + ChunkSize - 1) \div ChunkSize)
C10_Witness ==
    /\ Md5Done /\ Len(md5st.content) = 2 * ChunkSize
    /\ md5st.updates = <<ChunkSize, ChunkSize>>

=============================================================================
